---- MODULE Spec2Model ----
(***************************************************************************)
(* Model of the Twitch VOD -> YouTube archiver (src/main.py,               *)
(* src/twitch_api.py, src/downloader.py, src/youtube_upload.py): the       *)
(* Source Lister with its access token, the checkpoint store               *)
(* (processed_vods.json and its in-memory copy), the item pipeline         *)
(* process_vod and the poll cycle run_once / run_loop, with process        *)
(* crashes and restarts.                                                   *)
(***************************************************************************)
EXTENDS Integers, Sequences, FiniteSets, TLC

\* ------------------------------------------------------------------ bounds
MaxCycles == 2   \* cycles (calls of run_once) explored per run

\* ------------------------------------------------------- values and shapes
Ids == {"111", "222", "333"}

None  == "None"    \* Python None
JNull == "null"    \* JSON null literal
Empty == ""        \* the empty string

MediaFile == "media"   \* <id>_<name>.mp4, non-empty: a completed download
PartFile  == "part"    \* <id>_<name>.mp4.part: a partial download

NoMap == [k \in {} |-> None]

\* A VOD record of the listing is determined by its id.
Title(id)     == "title-" \o id
CreatedAt(id) == "created-" \o id

\* The n-th video id YouTube gives out for uploads of one source item.
YtId(n) == "yt" \o ToString(n)

\* response["id"] of an upload of source item id when yt holds the videos
\* on the destination: an id no other video has.
NewVideoId(yt, id) == id \o "-" \o YtId(Cardinality(yt[id]) + 1)

\* datetime.now().isoformat() during cycle n (the wall clock advances
\* from one cycle to the next).
IsoNow(n) == "T" \o ToString(n)

Range(s) == {s[k] : k \in 1..Len(s)}

\* Contents of processed_vods.json.
FileMissing   == [kind |-> "missing",   ids |-> <<>>, map |-> NoMap]
FileMalformed == [kind |-> "malformed", ids |-> <<>>, map |-> NoMap]
FileNumber    == [kind |-> "number",    ids |-> <<>>, map |-> NoMap]
FileString    == [kind |-> "string",    ids |-> <<>>, map |-> NoMap]
FileList(s)   == [kind |-> "list",      ids |-> s,    map |-> NoMap]
FileDict(m)   == [kind |-> "dict",      ids |-> <<>>, map |-> m]

\* Python values held in self.processed_vods.
PyUnset   == [kind |-> "unset",  map |-> NoMap]
PyNumber  == [kind |-> "number", map |-> NoMap]
PyString  == [kind |-> "string", map |-> NoMap]
PyDict(m) == [kind |-> "dict",   map |-> m]

\* ------------------------------------------------------ JSON conversions
\* json.dump of a field value: None becomes null, a str stays a string.
DumpVal(v) == IF v = None THEN JNull ELSE v

\* json.load of a field value.
LoadVal(j) == IF j = JNull THEN None ELSE j

\* A dump that drops the stream_date key.
DumpEntry_NoStreamDate(e) ==
    [k \in DOMAIN e \ {"stream_date"} |-> DumpVal(e[k])]

\* json.dump of one entry of the store.
DumpEntry(e) == [k \in DOMAIN e |-> DumpVal(e[k])]

\* json.load of one entry object.
LoadEntry(o) == [k \in DOMAIN o |-> LoadVal(o[k])]

\* json.load(f) for a parsable file.
JsonLoad(f) ==
    CASE f.kind = "dict"   -> PyDict([id \in DOMAIN f.map |-> LoadEntry(f.map[id])])
      [] f.kind = "number" -> PyNumber
      [] f.kind = "string" -> PyString
      [] OTHER             -> PyUnset

\* ------------------------------------------------------ checkpoint store
\* VODArchiver._load_processed
_load_processed(f) ==
    CASE f.kind \in {"missing", "malformed"} -> PyDict(NoMap)
      [] f.kind = "list" ->
            PyDict([id \in Range(f.ids) |-> [twitch_id |-> id]])
      [] OTHER -> JsonLoad(f)

\* VODArchiver._save_processed: the file content after a completed write.
_save_processed(store) ==
    FileDict([id \in DOMAIN store.map |-> DumpEntry(store.map[id])])

\* A migration test that also rewrites a keyed file.
NeedsMigration_AnyContainer(f) == f.kind \in {"list", "dict"}

\* The isinstance(raw_data, list) test of _migrate_processed_format.
NeedsMigration(f) == f.kind = "list"

\* A migration that keeps the entries as _load_processed built them.
MigratedStore_AsLoaded(ids) ==
    [kind |-> "dict", map |-> [id \in {ids[k] : k \in 1..Len(ids)} |-> [twitch_id |-> id]]]

\* The store built by _migrate_processed_format from the legacy list.
MigratedStore(ids) ==
    PyDict([id \in Range(ids) |->
              [twitch_id |-> id, youtube_id |-> None,
               title |-> None, uploaded_at |-> None]])

\* The entry written by _mark_processed.
MarkEntry(vod_id, youtube_id, title, stream_date, now) ==
    [twitch_id |-> vod_id, youtube_id |-> youtube_id, title |-> title,
     stream_date |-> stream_date, uploaded_at |-> now]

\* self.processed_vods[vod_id] = {...}
_mark_processed(store, vod_id, youtube_id, title, stream_date, now) ==
    PyDict([id \in DOMAIN store.map \cup {vod_id} |->
              IF id = vod_id
              THEN MarkEntry(vod_id, youtube_id, title, stream_date, now)
              ELSE store.map[id]])

\* A filter that lets entries without a destination id through.
NotProcessed_NeedsYoutubeId(store, vod_id) ==
    \/ store.kind # "dict"
    \/ vod_id \notin DOMAIN store.map
    \/ "youtube_id" \notin DOMAIN store.map[vod_id]
    \/ store.map[vod_id].youtube_id = None

\* "vod_id not in self.processed_vods" for a dict or a str store.
\* (A str store never contains a VOD id as a substring here.)
NotProcessed(store, vod_id) ==
    IF store.kind = "dict" THEN vod_id \notin DOMAIN store.map ELSE TRUE

\* A check that takes every listed VOD as new.
FilterNew_NoFilter(vods, store) == vods

\* The filter loop of check_for_new_vods.
RECURSIVE FilterNew(_, _)
FilterNew(vods, store) ==
    IF vods = <<>> THEN <<>>
    ELSE IF NotProcessed(store, Head(vods))
         THEN <<Head(vods)>> \o FilterNew(Tail(vods), store)
         ELSE FilterNew(Tail(vods), store)

\* The membership test raises TypeError for a store that is no container.
FilterRaises(store, vods) == store.kind = "number" /\ vods # <<>>

\* ------------------------------------------------------------ downloader
\* VODDownloader._find_existing_file
_find_existing_file(dir, vod_id) ==
    IF MediaFile \in dir[vod_id] THEN MediaFile ELSE None

\* The files _cleanup_partial_downloads unlinks for one id.
PartialFiles(dir, vod_id) == dir[vod_id] \cap {PartFile}

\* A pipeline that goes on to publish whatever download returned.
FetchFailed_Never(p) == FALSE

\* "if not file_path" in process_vod.
FetchFailed(p) == p = None \/ p = Empty

\* A test "video_id is None", which lets the empty id through.
UploadFailed_OnlyNone(v) == v = None

\* "if not video_id" in process_vod.
UploadFailed(v) == v = None \/ v = Empty

\* --------------------------------------------------------------- state
VARIABLES
    pc,                  \* position of the controller process
    file,                \* processed_vods.json
    processed_vods,      \* self.processed_vods
    dir,                 \* download directory: id -> kinds of files present
    youtube,             \* videos on the destination: source id -> their ids
    delete_after_upload, \* config["settings"]["delete_after_upload"]
    youtube_client,      \* self.uploader.youtube is set
    vods,                \* listing returned by the Source Lister this cycle
    new_vods,            \* filtered candidates of this cycle
    idx,                 \* position of the for loop of run_once in new_vods
    file_path,           \* process_vod: result of downloader.download
    video_id,            \* process_vod: result of uploader.upload
    success_count,       \* run_once: success_count
    cycle_end,           \* how the last cycle ended
    access_token,        \* self.twitch.access_token
    token_rejected,      \* the Twitch API has rejected the held token
    lister,              \* what the listing call just made met
    token_fetched,       \* the listing call just made requested a token
    calls,               \* collaborator invocations of this cycle
    unfinished,          \* ids with an artifact produced by a pipeline run
                         \* and no checkpoint written since (history)
    migrations,          \* writes performed by _migrate_processed_format
    cycles,              \* cycles started so far
    once,                \* args.once
    start_cwd,           \* working directory the process is launched in
    cwd,                 \* working directory of the process
    other_file,          \* processed_vods.json in the project root, where the
                         \* process is launched in another directory
    dashboard,           \* position of the dashboard thread
    auth,                \* what the uploader.authenticate() just made did
    auth_failed,         \* an authenticate() of this process returned False
    disk_usage,          \* what shutil.disk_usage gave the download just made
    request,             \* HTTP request the dashboard handler is given
    response,            \* the handler's response
    effects,             \* what the handler did besides responding
    collection,          \* whether the playlists endpoint answers the account
    playlist_id,         \* self.playlist_id of the controller
    playlist_id_file,    \* content of youtube_playlist_id.txt
    playlists,           \* playlists that exist on the destination
    sync_vods            \* processed_vods of a running update_processed_vods

vars == <<pc, file, processed_vods, dir, youtube, delete_after_upload,
          youtube_client, vods, new_vods, idx, file_path, video_id,
          success_count, cycle_end, access_token, token_rejected, lister,
          token_fetched, calls, unfinished, migrations, cycles, once,
          start_cwd, cwd, other_file, dashboard, auth, auth_failed,
          disk_usage, request, response, effects, collection, playlist_id,
          playlist_id_file, playlists, sync_vods>>

locals     == <<vods, new_vods, idx, file_path, video_id, success_count>>
counters   == <<unfinished, migrations, cycles>>
twitch     == <<access_token, token_rejected>>
listing    == <<lister, token_fetched>>
config     == <<delete_after_upload, once, start_cwd>>
process    == <<cwd, dashboard>>
probes     == <<auth, disk_usage>>
http       == <<request, response, effects>>
playlist   == <<collection, playlist_id, playlist_id_file, playlists>>
saved_playlists == <<collection, playlist_id_file, playlists>>

\* Entries an earlier process may have left in a keyed checkpoint file.
OldFull(id) == DumpEntry(MarkEntry(id, id \o "-" \o YtId(1), Title(id), CreatedAt(id), IsoNow(0)))

OldLegacy(id) == DumpEntry(MigratedStore(<<id>>).map[id])

InitFiles ==
    {FileMissing, FileMalformed, FileNumber, FileString,
     FileList(<<"111", "222">>),
     FileDict(NoMap),
     FileDict([id \in {"111", "222"} |->
                 IF id = "111" THEN OldFull(id) ELSE OldLegacy(id)])}

\* The videos an earlier process published, as its checkpoint file records.
OnYouTube(f, id) ==
    IF /\ f.kind = "dict"
       /\ id \in DOMAIN f.map
       /\ "youtube_id" \in DOMAIN f.map[id]
       /\ f.map[id].youtube_id # JNull
    THEN {f.map[id].youtube_id}
    ELSE {}

cur == new_vods[idx]

RECURSIVE Sum(_, _)
Sum(f, S) == IF S = {} THEN 0
             ELSE LET x == CHOOSE y \in S : TRUE
                  IN Cardinality(f[x]) + Sum(f, S \ {x})

\* Number of videos on the destination.
Published(yt) == Sum(yt, Ids)

\* Working directories: the directory of main.py (the project_root of
\* dashboard_server.py) and any other directory.
ProjectRoot == "root"

Elsewhere == "elsewhere"

\* No authenticate() call was made in this step.
NoAuth == "none"

\* No disk probe was made in this step.
NoUsage == [raised |-> FALSE, free |-> -1]

\* The dashboard handler is idle.
NoRequest == [method |-> "none", path |-> "none"]

NoResponse == [status |-> "none", type |-> "none", body |-> "none"]

\* No update_processed_vods of the playlist-sync script is running.
NoSync == [kind |-> "idle", ids |-> <<>>, map |-> NoMap]

\* What is the same in every start of the controller.
InitCommon ==
    /\ sync_vods = NoSync
    /\ pc = "boot"
    /\ processed_vods = PyUnset
    /\ dir = [id \in Ids |-> {}]
    /\ youtube = [id \in Ids |-> OnYouTube(file, id)]
    /\ youtube_client = FALSE
    /\ vods = <<>>
    /\ new_vods = <<>>
    /\ idx = 1
    /\ file_path = None
    /\ video_id = None
    /\ success_count = 0
    /\ cycle_end = "none"
    /\ access_token = None
    /\ token_rejected = FALSE
    /\ lister = "none"
    /\ token_fetched = FALSE
    /\ calls = <<>>
    /\ unfinished = {}
    /\ migrations = 0
    /\ cycles = 0
    /\ cwd = start_cwd
    /\ other_file = FileMissing
    /\ dashboard = "none"
    /\ auth = NoAuth
    /\ auth_failed = FALSE
    /\ disk_usage = NoUsage
    /\ request = NoRequest
    /\ response = NoResponse
    /\ effects = {}
    /\ playlist_id = None

\* The playlists endpoint refuses every request of the account: no playlist
\* is found, none is made, youtube_playlist_id.txt is never written.
NoCollection ==
    /\ collection = "down"
    /\ playlist_id_file = None
    /\ playlists = {}

\* The controller in loop mode, launched in the project root.
Init ==
    /\ NoCollection
    /\ file \in InitFiles
    /\ delete_after_upload \in BOOLEAN
    /\ once = FALSE
    /\ start_cwd = ProjectRoot
    /\ InitCommon

\* The channel's past broadcasts, newest first, as the videos endpoint
\* orders them.
Channel == <<"333", "222", "111">>

RECURSIVE SubSeqs(_)
SubSeqs(s) ==
    IF s = <<>> THEN {<<>>}
    ELSE LET rest == SubSeqs(Tail(s))
         IN rest \cup {<<Head(s)>> \o t : t \in rest}

\* Listings the Source Lister can return (get_channel_vods): any of the
\* channel's broadcasts that exist at the time, in the channel's order.
Listings == SubSeqs(Channel)

\* The app access token of the client-credentials flow.
Token == "token"

\* TwitchAPI.get_channel_vods with get_user_id, get_vods and the lazy
\* authenticate: every result of one call for a held token tok (None when
\* there is none) that the API has rejected before or not. met names what
\* the call met, raised whether it ended by an exception, fetched whether
\* it posted a token request.
ListerResults(tok, rejected) ==
    LET AfterAuth(fetched, rej) ==
            IF rej
            THEN \* 401 again: HTTPError is a RequestException
                 {[token |-> Token, rejected |-> TRUE, fetched |-> fetched,
                   met |-> "rejected", raised |-> FALSE, vods |-> <<>>]}
            ELSE {[token |-> Token, rejected |-> TRUE, fetched |-> fetched,
                   met |-> "rejected", raised |-> FALSE, vods |-> <<>>],
                  [token |-> Token, rejected |-> FALSE, fetched |-> fetched,
                   met |-> "request_error", raised |-> FALSE, vods |-> <<>>],
                  \* data["data"] or video["id"] is missing: KeyError
                  [token |-> Token, rejected |-> FALSE, fetched |-> fetched,
                   met |-> "bad_response", raised |-> TRUE, vods |-> <<>>]}
                 \cup {[token |-> Token, rejected |-> FALSE, fetched |-> fetched,
                        met |-> "ok", raised |-> FALSE, vods |-> l] :
                          l \in Listings}
    IN IF tok = None
       THEN {\* the token request fails
             [token |-> None, rejected |-> FALSE, fetched |-> TRUE,
              met |-> "request_error", raised |-> FALSE, vods |-> <<>>],
             \* the token response has no access_token: KeyError
             [token |-> None, rejected |-> FALSE, fetched |-> TRUE,
              met |-> "bad_response", raised |-> TRUE, vods |-> <<>>]}
            \cup AfterAuth(TRUE, FALSE)
       ELSE AfterAuth(FALSE, rejected)

Call(op, k, id) == [op |-> op, idx |-> k, id |-> id]

\* Sizes are counted in MiB.
GiB == 1024

\* download's min_free_gb, the space check_disk_space keeps free.
MinFreeGb == 5

\* download's estimated_max_size, 10 GiB.
EstimatedMaxSize == 10 * GiB

\* Free space shutil.disk_usage can report: 1 MiB short of what download
\* asks for, and just that.
FreeSpaces == {EstimatedMaxSize + MinFreeGb * GiB - 1,
               EstimatedMaxSize + MinFreeGb * GiB}

\* What shutil.disk_usage can give: an exception or a free space.
DiskUsages ==
    {[raised |-> TRUE, free |-> -1]}
    \cup {[raised |-> FALSE, free |-> f] : f \in FreeSpaces}

\* VODDownloader.get_free_space
get_free_space(usage) == IF usage.raised THEN 0 ELSE usage.free

\* A check that lets the download start when the reserve alone is free.
check_disk_space_ReserveOnly(free_bytes, estimated_size, min_free_gb) ==
    ~(free_bytes < min_free_gb * GiB)

\* VODDownloader.check_disk_space: the has_space it returns.
check_disk_space(free_bytes, estimated_size, min_free_gb) ==
    /\ ~(free_bytes < min_free_gb * GiB)
    /\ ~(estimated_size # 0 /\ free_bytes < estimated_size + min_free_gb * GiB)

\* VODDownloader.download: the possible results for one id, each with the
\* files of that id afterwards and whether the media-fetch tool was invoked.
DownloadResults(d, id, usage) ==
    IF _find_existing_file(d, id) # None
    THEN {[path |-> _find_existing_file(d, id), files |-> d[id], fetched |-> FALSE]}
    ELSE IF ~check_disk_space(get_free_space(usage), EstimatedMaxSize, MinFreeGb)
    THEN \* check_disk_space refuses: no fetch
         {[path |-> None, files |-> d[id], fetched |-> FALSE]}
    ELSE \* ydl.download succeeds and the hook names the file
         {[path |-> MediaFile, files |-> d[id] \cup {MediaFile}, fetched |-> TRUE]}
         \cup \* ydl.download raises, possibly leaving a partial file
         {[path |-> None, files |-> d[id] \cup extra, fetched |-> TRUE] :
             extra \in SUBSET {PartFile}}
         \cup \* no exception, no hook file: the fallback search takes any <id>_ file
         {[path |-> f, files |-> d[id] \cup {f}, fetched |-> TRUE] :
             f \in d[id] \cup {PartFile}}

\* YouTubeUploader.authenticate: every run of one call, by the credentials
\* it finds in credentials_file ("missing" also when the file cannot be
\* parsed), what credentials.refresh and the OAuth flow did, and the result:
\* "ok" for True, "false" for False, "raised" for an exception.
AuthenticateResults ==
    LET Run(c, r, f, res) == [creds |-> c, refresh |-> r, flow |-> f, result |-> res]
        \* build(): the client, or an exception that is caught
        Build(c, r, f) == {Run(c, r, f, "ok"), Run(c, r, f, "false")}
        \* the write of credentials_file, then build()
        Save(c, r, f) == {Run(c, r, f, "raised")} \cup Build(c, r, f)
        \* "if not credentials": client_secrets_file and the flow
        Flow(c, r) == {Run(c, r, "no_secrets", "false"), Run(c, r, "raised", "raised")}
                      \cup Save(c, r, "ok")
    IN Build("valid", "none", "none")
       \cup Save("expired", "ok", "none")
       \cup Flow("expired", "failed")
       \cup Flow("missing", "none")
       \cup Save("invalid", "none", "none")

\* What run_once sees and logs of one authenticate() call: the result, and
\* for a False the message that client_secrets_file was not found.
AuthOutcome(r) == IF r.flow = "no_secrets" THEN "no_secrets" ELSE r.result

\* A loop that is left by an exception of the cycle.
AfterException_Exit == "aborted"

\* run_loop, lines 325-328: "except Exception" logs, sleeps and loops.
\* With --once nothing catches the exception: it leaves main().
AfterException == IF once THEN "aborted" ELSE "sleep"

\* A loop that starts the next cycle as soon as run_once has returned.
CycleDone_NoSleep == IF once THEN "exited" ELSE "cycle"

\* run_once has returned: main() logs the count and returns (lines
\* 349-351), run_loop logs and sleeps (lines 314-320).
CycleDone == IF once THEN "exited" ELSE "sleep"

\* A loop that goes on with the next candidate after a failure.
StopCycle_Continue ==
    IF idx < Len(new_vods)
    THEN idx' = idx + 1 /\ pc' = "process" /\ cycle_end' = "stopped"
    ELSE idx' = idx /\ pc' = CycleDone /\ cycle_end' = "stopped"

\* run_once, lines 285-287: the break after a failed process_vod.
StopCycle ==
    /\ idx' = idx
    /\ pc' = CycleDone
    /\ cycle_end' = "stopped"

ResetLocals ==
    /\ vods' = <<>>
    /\ new_vods' = <<>>
    /\ idx' = 1
    /\ file_path' = None
    /\ video_id' = None
    /\ success_count' = 0
    /\ calls' = <<>>
    /\ cycle_end' = "none"
    /\ lister' = "none"
    /\ token_fetched' = FALSE
    /\ auth' = NoAuth
    /\ disk_usage' = NoUsage

\* The file the relative name "processed_vods.json" names for the process.
Checkpoint == IF cwd = start_cwd THEN file ELSE other_file

\* open(self.processed_file, "w") and what is written through it.
WriteCheckpoint(content) ==
    IF cwd = start_cwd
    THEN file' = content /\ other_file' = other_file
    ELSE other_file' = content /\ file' = file

\* A run_loop that is entered with --once as well.
StartsDashboard_Always == TRUE

\* main, lines 349-354: only run_loop starts the dashboard (lines 302-305).
StartsDashboard == ~once

\* main up to the first cycle: VODArchiver.__init__ with _load_processed and
\* _migrate_processed_format, then run_once, or run_loop with
\* DashboardServer.start, which creates the thread and returns. The file
\* is read and written before any thread exists: in start_cwd.
Startup ==
    /\ pc = "boot"
    /\ LET mig   == NeedsMigration(file)
           store == IF mig THEN MigratedStore(file.ids) ELSE _load_processed(file)
       IN /\ processed_vods' = store
          /\ file' = IF mig THEN _save_processed(store) ELSE file
          /\ migrations' = IF mig THEN migrations + 1 ELSE migrations
    /\ pc' = "cycle"
    /\ dashboard' = IF StartsDashboard THEN "started" ELSE dashboard
    /\ UNCHANGED <<dir, youtube, config, youtube_client, locals,
                   cycle_end, twitch, listing, calls, unfinished, cycles,
                   cwd, other_file, probes, auth_failed, http, sync_vods,
                   playlist>>

\* The process dies inside the _save_processed of the migration: the file
\* was truncated by open(..., "w") and holds at most a prefix of the JSON.
StartupCrash ==
    /\ pc = "boot"
    /\ NeedsMigration(file)
    /\ file' = FileMalformed
    /\ UNCHANGED <<pc, processed_vods, dir, youtube, config,
                   youtube_client, locals, cycle_end, twitch, listing, calls,
                   unfinished, migrations, cycles,
                   process, other_file, probes, auth_failed, http, sync_vods,
                   playlist>>

\* DashboardServer.start, run_server (lines 229-238): the thread changes the
\* working directory of the process to project_root and serves.
DashboardRun ==
    /\ dashboard = "started"
    /\ cwd' = ProjectRoot
    /\ dashboard' = "serving"
    /\ UNCHANGED <<pc, file, processed_vods, dir, youtube, config,
                   youtube_client, locals, cycle_end, twitch, listing, calls,
                   counters, other_file, probes, auth_failed, http, sync_vods,
                   playlist>>

\* run_server, lines 232-233: the working directory is changed, then
\* TCPServer cannot bind the port; the OSError is raised outside the try
\* block of lines 235-238 and ends the thread.
DashboardBindFails ==
    /\ dashboard = "started"
    /\ cwd' = ProjectRoot
    /\ dashboard' = "bind_failed"
    /\ UNCHANGED <<pc, file, processed_vods, dir, youtube, config,
                   youtube_client, locals, cycle_end, twitch, listing, calls,
                   counters, other_file, probes, auth_failed, http, sync_vods,
                   playlist>>

\* run_server, lines 235-238: serve_forever raises, the exception is
\* logged, the server is closed and the thread returns.
DashboardServeFails ==
    /\ dashboard = "serving"
    /\ dashboard' = "ended"
    /\ UNCHANGED <<pc, file, processed_vods, dir, youtube, config,
                   youtube_client, locals, cycle_end, twitch, listing, calls,
                   counters, cwd, other_file, probes, auth_failed, http,
                   sync_vods, playlist>>

\* A dashboard thread that is not a daemon.
Daemon_Not == FALSE

\* DashboardServer.start, line 240: threading.Thread(..., daemon=True).
Daemon == TRUE

\* The interpreter ends once the main thread is done and no thread that is
\* not a daemon is alive.
ExitWaits == ~Daemon /\ dashboard \in {"started", "serving"}

\* A run_once that goes on with an empty candidate list.
NoneNew_Never(nv) == FALSE

\* run_once, line 264: "if not new_vods".
NoneNew(nv) == nv = <<>>

\* run_once, lines 262-265, with check_for_new_vods, in the cycle that
\* makes the number of cycles n.
Poll(n) ==
    /\ pc = "cycle"
    /\ cycles' = n
    /\ \E r \in ListerResults(access_token, token_rejected) :
          /\ access_token' = r.token
          /\ token_rejected' = r.rejected
          /\ token_fetched' = r.fetched
          /\ lister' = r.met
          /\ vods' = r.vods
          /\ IF r.raised \/ FilterRaises(processed_vods, r.vods)
             THEN /\ new_vods' = <<>>
                  /\ pc' = AfterException
                  /\ cycle_end' = "exception"
             ELSE /\ new_vods' = FilterNew(r.vods, processed_vods)
                  /\ IF NoneNew(new_vods')
                     THEN pc' = CycleDone /\ cycle_end' = "no_new"
                     ELSE pc' = "auth" /\ cycle_end' = "none"
    /\ idx' = 1
    /\ success_count' = 0
    /\ file_path' = None
    /\ video_id' = None
    /\ calls' = <<>>
    /\ UNCHANGED <<file, processed_vods, dir, youtube, config,
                   youtube_client, unfinished, migrations,
                   process, other_file, probes, auth_failed, http, sync_vods,
                   playlist>>

\* One of the first MaxCycles cycles.
CheckForNewVods == cycles < MaxCycles /\ Poll(cycles + 1)

\* A cycle after the first MaxCycles: they are not told apart.
LaterCycle == cycles = MaxCycles /\ Poll(cycles)

\* A run_once that goes on to its candidates without a client.
AfterAuthFailure_GoesOn == "process"

\* run_once, lines 268-270: "return 0" when authenticate() returned False.
AfterAuthFailure == CycleDone

\* The id YouTube gives the next playlist made.
NewPlaylistId(made) == "PL" \o ToString(Cardinality(made) + 1)

\* youtube_playlist_id.txt exists and holds an id: "if saved_id".
HasSavedId(saved) == saved # None /\ saved # Empty

\* get_or_create_playlist, lines 302-323: whether the verification of the
\* saved id can fall through to the creation. It does when the list call
\* answers with no items, and also when it raises (HttpError is passed,
\* anything else is caught by the outer handler), whatever exists.
VerifyFalls(saved, made) == TRUE

\* YouTubeUploader.get_or_create_playlist for a client that is set: every
\* result of one call, with youtube_playlist_id.txt and the playlists on
\* the destination afterwards. raised stands for an exception that leaves
\* the function (the HttpError handler of the creation cannot parse the
\* error body).
PlaylistResults(saved, made, coll) ==
    LET Result(id, f, pl, raised) ==
            [id |-> id, file |-> f, playlists |-> pl, raised |-> raised]
        new == NewPlaylistId(made)
        Create ==
            {\* playlists().insert and the write of the id file succeed
             Result(new, new, made \cup {new}, FALSE),
             \* insert fails and the handler returns None
             Result(None, saved, made, FALSE),
             \* insert fails and the handler raises
             Result(None, saved, made, TRUE)}
            \cup \* insert succeeds; open or write of the id file fails
            {Result(None, f, made \cup {new}, FALSE) : f \in {saved, Empty}}
    IN IF coll = "down"
       THEN {Result(None, saved, made, FALSE)}
       ELSE IF HasSavedId(saved)
            THEN (IF saved \in made
                  THEN {Result(saved, saved, made, FALSE)} ELSE {})
                 \cup (IF VerifyFalls(saved, made) THEN Create ELSE {})
            ELSE Create

\* run_once, line 273: "if not self.playlist_id".
NeedsPlaylist(id) == id = None \/ id = Empty

\* run_once, lines 267-279: uploader.authenticate(), then
\* get_or_create_playlist unless the controller holds a playlist id. What
\* check_for_new_vods met and listed is gone with its return.
Authenticate ==
    /\ pc = "auth"
    /\ \E outcome \in {AuthOutcome(r) : r \in AuthenticateResults} :
          /\ auth' = outcome
          /\ CASE outcome = "ok" ->
                    /\ youtube_client' = TRUE
                    /\ auth_failed' = auth_failed
                    /\ IF NeedsPlaylist(playlist_id)
                       THEN \E p \in PlaylistResults(playlist_id_file, playlists,
                                                     collection) :
                               /\ playlist_id_file' = p.file
                               /\ playlists' = p.playlists
                               /\ playlist_id' = p.id
                               /\ IF p.raised
                                  THEN pc' = AfterException /\ cycle_end' = "exception"
                                  ELSE pc' = "process" /\ cycle_end' = "none"
                       ELSE /\ UNCHANGED <<playlist_id, playlist_id_file, playlists>>
                            /\ pc' = "process" /\ cycle_end' = "none"
               [] outcome \in {"false", "no_secrets"} ->
                    /\ youtube_client' = youtube_client
                    /\ pc' = AfterAuthFailure /\ cycle_end' = "auth_failed"
                    /\ auth_failed' = TRUE
                    /\ UNCHANGED <<playlist_id, playlist_id_file, playlists>>
               [] outcome = "raised" ->
                    /\ youtube_client' = youtube_client
                    /\ pc' = AfterException /\ cycle_end' = "exception"
                    /\ auth_failed' = auth_failed
                    /\ UNCHANGED <<playlist_id, playlist_id_file, playlists>>
    /\ lister' = "none"
    /\ token_fetched' = FALSE
    /\ vods' = <<>>
    /\ UNCHANGED <<file, processed_vods, dir, youtube, config, new_vods, idx,
                   file_path, video_id, success_count, twitch, calls, counters,
                   process, other_file, disk_usage, http, sync_vods, collection>>

\* process_vod, lines 165-186: download, and on failure the cleanup and
\* the break of run_once.
Download ==
    /\ pc = "process"
    /\ \E usage \in DiskUsages :
       \E r \in DownloadResults(dir, cur, usage) :
          /\ disk_usage' = IF _find_existing_file(dir, cur) # None
                           THEN NoUsage ELSE usage
          /\ file_path' = r.path
          /\ calls' = IF r.fetched THEN Append(calls, Call("fetch", idx, cur))
                      ELSE calls
          /\ unfinished' = IF r.fetched /\ MediaFile \in r.files
                           THEN unfinished \cup {cur}
                           ELSE unfinished
          /\ IF FetchFailed(r.path)
             THEN /\ \E cleaned \in BOOLEAN :
                        dir' = [dir EXCEPT ![cur] =
                                  IF cleaned
                                  THEN r.files \ PartialFiles([dir EXCEPT ![cur] = r.files], cur)
                                  ELSE r.files]
                  /\ StopCycle
             ELSE /\ dir' = [dir EXCEPT ![cur] = r.files]
                  /\ idx' = idx
                  /\ pc' = "upload"
                  /\ cycle_end' = "none"
    /\ auth' = NoAuth
    /\ UNCHANGED <<file, processed_vods, youtube, config,
                   youtube_client, vods, new_vods, video_id,
                   success_count, twitch, listing, migrations, cycles,
                   process, other_file, auth_failed, http, sync_vods,
                   playlist>>

\* YouTubeUploader.upload, lines 259-261, with add_to_playlist: what the
\* call made after a finished upload does. "none": no playlist id, no call;
\* "added"; "false": the call fails and add_to_playlist returns False;
\* "raised": its HttpError handler cannot parse the error body and raises.
AddResults(id) ==
    IF id = None \/ id = Empty THEN {"none"} ELSE {"added", "false", "raised"}

\* YouTubeUploader.upload: the outcomes of one call. "ok": the video is
\* made and its id returned; "lost_id": the video is made, add_to_playlist
\* raises inside the try block of upload, and "except Exception" returns
\* None; "failed": no video, None; "empty_id": no video, an empty id.
UploadOutcomes(id) ==
    {"failed", "empty_id"}
    \cup {IF a = "raised" THEN "lost_id" ELSE "ok" : a \in AddResults(id)}

\* process_vod, lines 188-201, with YouTubeUploader.upload.
Upload ==
    /\ pc = "upload"
    /\ calls' = Append(calls, Call("publish", idx, cur))
    /\ \E out \in UploadOutcomes(playlist_id) :
          /\ out \in {"ok", "lost_id"} => file_path \in dir[cur]
          /\ youtube' = IF out \in {"ok", "lost_id"}
                         THEN [youtube EXCEPT ![cur] = @ \cup {NewVideoId(youtube, cur)}]
                         ELSE youtube
          /\ video_id' = CASE out = "ok"       -> NewVideoId(youtube, cur)
                           [] out = "lost_id"  -> None
                           [] out = "failed"   -> None
                           [] out = "empty_id" -> Empty
    /\ IF UploadFailed(video_id')
       THEN StopCycle
       ELSE /\ idx' = idx
            /\ pc' = (IF delete_after_upload THEN "delete" ELSE "mark")
            /\ cycle_end' = "none"
    /\ UNCHANGED <<file, processed_vods, dir, config,
                   youtube_client, vods, new_vods, file_path,
                   success_count, twitch, listing, counters,
                   process, other_file, probes, auth_failed, http, sync_vods,
                   playlist>>

\* A pipeline that gives the item up when the delete fails.
AfterDelete_FailStops(removed) == IF removed THEN "mark" ELSE "sleep"

\* process_vod, lines 204-207: the result of downloader.delete is not
\* looked at, _mark_processed is next.
AfterDelete(removed) == "mark"

\* process_vod, lines 204-205, with VODDownloader.delete.
Delete ==
    /\ pc = "delete"
    /\ \E removed \in BOOLEAN :
          /\ dir' = IF removed THEN [dir EXCEPT ![cur] = @ \ {file_path}] ELSE dir
          /\ pc' = AfterDelete(removed)
    /\ UNCHANGED <<file, processed_vods, youtube, config,
                   youtube_client, locals, cycle_end, twitch, listing, calls,
                   counters, process, other_file, probes, auth_failed, http, sync_vods,
                   playlist>>

\* process_vod, lines 207-209, and the loop of run_once, lines 282-289.
MarkProcessed ==
    /\ pc = "mark"
    /\ processed_vods.kind = "dict"
    /\ processed_vods' = _mark_processed(processed_vods, cur, video_id,
                                          Title(cur), CreatedAt(cur), IsoNow(cycles))
    /\ WriteCheckpoint(_save_processed(processed_vods'))
    /\ success_count' = success_count + 1
    /\ IF idx < Len(new_vods)
       THEN idx' = idx + 1 /\ pc' = "process" /\ cycle_end' = "none"
       ELSE idx' = idx /\ pc' = CycleDone /\ cycle_end' = "completed"
    /\ unfinished' = unfinished \ {cur}
    /\ UNCHANGED <<dir, youtube, config, youtube_client, vods,
                   new_vods, file_path, video_id, twitch, listing, calls,
                   migrations, cycles, process, probes, auth_failed, http, sync_vods,
                   playlist>>

\* _mark_processed raises: the store is not a dict (TypeError on item
\* assignment), or _save_processed fails with an OSError after the in-memory
\* update. run_loop catches the exception (lines 325-328).
MarkRaises ==
    /\ pc = "mark"
    /\ IF processed_vods.kind = "dict"
       THEN /\ processed_vods' = _mark_processed(processed_vods, cur, video_id,
                                          Title(cur), CreatedAt(cur), IsoNow(cycles))
            /\ \E written \in {Checkpoint, FileMalformed} : WriteCheckpoint(written)
       ELSE UNCHANGED <<processed_vods, file, other_file>>
    /\ pc' = AfterException
    /\ cycle_end' = "exception"
    /\ UNCHANGED <<dir, youtube, config, youtube_client, locals,
                   twitch, listing, calls, counters,
                   process, probes, auth_failed, http, sync_vods,
                   playlist>>

\* The process is gone: its memory, its threads and its working directory.
ProcessGone ==
    /\ processed_vods' = PyUnset
    /\ youtube_client' = FALSE
    /\ access_token' = None
    /\ token_rejected' = FALSE
    /\ cwd' = start_cwd
    /\ dashboard' = "none"
    /\ auth_failed' = FALSE
    /\ playlist_id' = None
    /\ ResetLocals

\* The process dies while _save_processed is writing the snapshot.
CrashInSave ==
    /\ pc = "mark"
    /\ processed_vods.kind = "dict"
    /\ WriteCheckpoint(FileMalformed)
    /\ pc' = "boot"
    /\ ProcessGone
    /\ UNCHANGED <<dir, youtube, config, counters, http, sync_vods, saved_playlists>>

\* The process dies anywhere else; the supervisor starts it again.
Crash ==
    /\ pc \notin {"boot", "shutdown", "aborted", "exited"}
    /\ pc' = "boot"
    /\ ProcessGone
    /\ UNCHANGED <<file, other_file, dir, youtube, config, counters, http, sync_vods,
                   saved_playlists>>

\* run_loop, lines 311-328: KeyboardInterrupt is handled for what runs
\* inside the try block (the cycle and the sleep of line 320), not for the
\* handler of "except Exception" with its sleep of line 328, and not for a
\* run_once that main() calls itself.
InterruptCaught == ~once /\ ~(pc = "sleep" /\ cycle_end = "exception")

\* KeyboardInterrupt while run_once or run_loop is running: either the loop
\* breaks and run_loop returns, or the interrupt leaves main() as an
\* exception.
Interrupt ==
    /\ pc \in {"cycle", "auth", "process", "upload", "delete", "mark", "sleep"}
    /\ ~ExitWaits
    /\ pc' = (IF InterruptCaught THEN "shutdown" ELSE "aborted")
    /\ ProcessGone
    /\ UNCHANGED <<file, other_file, dir, youtube, config, counters, http, sync_vods,
                   saved_playlists>>

\* run_loop, lines 319-320 and 327-328: time.sleep, then the next cycle.
Sleep ==
    /\ pc = "sleep"
    /\ pc' = "cycle"
    /\ ResetLocals
    /\ UNCHANGED <<file, processed_vods, dir, youtube, config,
                   youtube_client, twitch, unfinished, migrations, cycles,
                   process, other_file, auth_failed, http, sync_vods,
                   playlist>>

\* The main thread of the controller.
Next ==
    \/ Startup
    \/ StartupCrash
    \/ CheckForNewVods
    \/ Authenticate
    \/ Download
    \/ Upload
    \/ Delete
    \/ MarkProcessed
    \/ MarkRaises
    \/ CrashInSave
    \/ Crash
    \/ Interrupt
    \/ Sleep

Spec == Init /\ [][Next]_vars

\* One process in either mode, launched in the project root or elsewhere.
ProcessInit ==
    /\ NoCollection
    /\ file \in {FileMissing, FileString, FileList(<<"111", "222">>),
                 FileDict([id \in {"111", "222"} |->
                             IF id = "111" THEN OldFull(id) ELSE OldLegacy(id)])}
    /\ delete_after_upload \in BOOLEAN
    /\ once \in BOOLEAN
    /\ start_cwd \in {ProjectRoot, Elsewhere}
    /\ InitCommon

\* One run of main(): the main thread and the dashboard thread, from the
\* start of the process to its end.
Run ==
    \/ Startup
    \/ DashboardRun
    \/ CheckForNewVods
    \/ Authenticate
    \/ Download
    \/ Upload
    \/ Delete
    \/ MarkProcessed
    \/ MarkRaises
    \/ Interrupt
    \/ Sleep

ProcessSpec == ProcessInit /\ [][Run]_vars

\* ------------------------------------------------------ dashboard handler
\* handle_status: the free space, in GB, below which the status is "LOW".
StatusMinFreeGb == 5

\* Request paths, each with and without a query string.
PathBases == {"/api/status", "/api/authenticate", "/api/restart",
              "/api/status/", "/api/logs", "/web/dashboard.html",
              "/processed_vods.json", "/missing.html"}

\* Files the default handler finds under the working directory.
ServedFiles == {"/web/dashboard.html", "/processed_vods.json"}

\* What the liveness probe of handle_status meets: the powershell call
\* fails (or prints no number), or it prints a process count.
LiveProbes == {[raised |-> TRUE, count |-> 0],
               [raised |-> FALSE, count |-> 0],
               [raised |-> FALSE, count |-> 1]}

\* What mkdir and shutil.disk_usage of handle_status meet: an exception, or
\* a usage in whole GB.
DiskProbes == {[raised |-> TRUE, free |-> 0, used |-> 0, total |-> 0],
               [raised |-> FALSE, free |-> 4, used |-> 96, total |-> 100],
               [raised |-> FALSE, free |-> 5, used |-> 95, total |-> 100]}

\* A request with what its handler will meet.
Requests ==
    [method : {"GET", "POST"}, base : PathBases, query : {"", "t=1"},
     live : LiveProbes, disk : DiskProbes, popen : BOOLEAN]

\* self.path as the client sent it.
RawPath(req) == IF req.query = "" THEN req.base ELSE req.base \o "?" \o req.query

\* self.path.split('?')[0].strip()
ParsedPath(req) == req.base

\* parsed_path.startswith('/api/')
IsApiPath(p) == p \in {"/api/status", "/api/authenticate", "/api/restart",
                       "/api/status/", "/api/logs"}

JsonResponse(code, body) == [status |-> code, type |-> "application/json", body |-> body]

\* handle_status, lines 130-140: is_running.
IsRunning(live) == IF live.raised THEN FALSE ELSE live.count > 0

\* A handler that reports a disk it could not probe as low.
SpaceStatus_LowOnFailure(disk) ==
    IF ~disk.raised /\ disk.free >= StatusMinFreeGb THEN "OK" ELSE "LOW"

\* handle_status, lines 142-161: space_status.
SpaceStatus(disk) ==
    IF disk.raised THEN "UNKNOWN"
    ELSE IF disk.free >= StatusMinFreeGb THEN "OK" ELSE "LOW"

\* handle_status, lines 163-173: the response.
StatusBody(live, disk) ==
    [running |-> IsRunning(live),
     disk_space |->
        [free_gb   |-> IF disk.raised THEN 0 ELSE disk.free,
         total_gb  |-> IF disk.raised THEN 0 ELSE disk.total,
         used_gb   |-> IF disk.raised THEN 0 ELSE disk.used,
         has_space |-> ~disk.raised /\ disk.free >= StatusMinFreeGb,
         status    |-> SpaceStatus(disk)]]

\* do_GET and do_POST with handle_status, handle_authenticate,
\* handle_restart and the file serving of SimpleHTTPRequestHandler: the
\* response, and what the handler touches besides its socket.
HandleRequest(req) ==
    LET p == ParsedPath(req)
    IN CASE p = "/api/authenticate" ->
              [response |-> JsonResponse("200",
                              [status |-> IF req.popen THEN "success" ELSE "error"]),
               effects  |-> IF req.popen THEN {"authenticate_youtube.py"} ELSE {}]
         [] p = "/api/status" ->
              [response |-> JsonResponse("200", StatusBody(req.live, req.disk)),
               effects  |-> IF req.disk.raised THEN {} ELSE {"downloads/"}]
         [] p = "/api/restart" ->
              [response |-> JsonResponse("200",
                              [status |-> IF req.popen THEN "success" ELSE "error"]),
               effects  |-> IF req.popen THEN {"TwitchVODArchiver"} ELSE {}]
         [] IsApiPath(p) /\ p \notin {"/api/authenticate", "/api/status", "/api/restart"} ->
              [response |-> JsonResponse("404", [error |-> "API endpoint not found"]),
               effects  |-> {}]
         [] OTHER ->
              IF req.method = "GET" /\ p \in ServedFiles
              THEN [response |-> [status |-> "200", type |-> "file", body |-> [file |-> p]],
                    effects  |-> {}]
              ELSE [response |-> [status |-> "404", type |-> "text/html",
                                  body |-> [error |-> "Not Found"]],
                    effects  |-> {}]

\* The dashboard thread serves while the main loop sleeps.
HttpInit ==
    /\ file \in {FileMissing,
                 FileDict([id \in {"111", "222"} |->
                             IF id = "111" THEN OldFull(id) ELSE OldLegacy(id)])}
    /\ delete_after_upload = TRUE
    /\ once = FALSE
    /\ start_cwd = ProjectRoot
    /\ pc = "sleep"
    /\ processed_vods = _load_processed(file)
    /\ dir = [id \in Ids |-> {}]
    /\ youtube = [id \in Ids |-> OnYouTube(file, id)]
    /\ youtube_client = FALSE
    /\ vods = <<>>
    /\ new_vods = <<>>
    /\ idx = 1
    /\ file_path = None
    /\ video_id = None
    /\ success_count = 0
    /\ cycle_end = "no_new"
    /\ access_token = None
    /\ token_rejected = FALSE
    /\ lister = "none"
    /\ token_fetched = FALSE
    /\ calls = <<>>
    /\ unfinished = {}
    /\ migrations = 0
    /\ cycles = 1
    /\ cwd = ProjectRoot
    /\ other_file = FileMissing
    /\ dashboard = "serving"
    /\ auth = NoAuth
    /\ auth_failed = FALSE
    /\ disk_usage = NoUsage
    /\ request = NoRequest
    /\ response = NoResponse
    /\ effects = {}
    /\ playlist_id = None
    /\ NoCollection
    /\ sync_vods = NoSync

main_loop == <<pc, file, processed_vods, dir, youtube, config, youtube_client,
               locals, cycle_end, twitch, listing, calls, counters, process,
               other_file, probes, auth_failed, playlist, sync_vods>>

\* serve_forever accepts a request.
Receive ==
    /\ dashboard = "serving"
    /\ request = NoRequest
    /\ request' \in Requests
    /\ response' = NoResponse
    /\ effects' = {}
    /\ UNCHANGED main_loop

\* LogFileHandler.do_GET / do_POST answer it.
Handle ==
    /\ request # NoRequest
    /\ response = NoResponse
    /\ response' = HandleRequest(request).response
    /\ effects' = HandleRequest(request).effects
    /\ UNCHANGED <<request, main_loop>>

\* The connection is closed; the server waits for the next request.
Finish ==
    /\ response # NoResponse
    /\ request' = NoRequest
    /\ response' = NoResponse
    /\ effects' = {}
    /\ UNCHANGED main_loop

Serve == Receive \/ Handle \/ Finish

HttpSpec == HttpInit /\ [][Serve]_vars

\* ------------------------------------------------- the playlist in use
\* The controller in loop mode with the playlists endpoint in service:
\* youtube_playlist_id.txt is missing, empty or holds the id of a playlist
\* made earlier, which exists or was deleted since.
PlaylistInit ==
    /\ collection = "up"
    /\ playlist_id_file \in {None, Empty, "PL0"}
    /\ playlists \in {{}, {"PL0"}}
    /\ file \in {FileMissing, FileDict([id \in {"111"} |-> OldLegacy(id)])}
    /\ delete_after_upload \in BOOLEAN
    /\ once = FALSE
    /\ start_cwd = ProjectRoot
    /\ InitCommon

\* The channel holds its two older broadcasts.
ListsOlder == vods' \in SubSeqs(Tail(Channel))

\* The first MaxCycles cycles of one run_loop.
PlaylistRun ==
    \/ Startup
    \/ CheckForNewVods /\ ListsOlder
    \/ Authenticate
    \/ Download
    \/ Upload
    \/ Delete
    \/ MarkProcessed
    \/ MarkRaises
    \/ Sleep

PlaylistSpec == PlaylistInit /\ [][PlaylistRun]_vars

\* ------------------------------------------ the playlist-sync script
\* "not entry.get(key)" for an entry object of the JSON file.
Unset(o, key) == key \notin DOMAIN o \/ o[key] = JNull \/ o[key] = Empty

\* sync_playlist_links.py, match_videos_to_vods: the match for a VOD id, a
\* video of the playlist whose title or description holds the id: the video
\* the entry records, or for an entry without a destination id the video
\* an earlier version of the archiver uploaded.
Match(map, id) ==
    [youtube_id |-> IF id \in DOMAIN map /\ ~Unset(map[id], "youtube_id")
                    THEN map[id].youtube_id ELSE "sync-" \o id,
     title |-> Title(id), published_at |-> "P"]

\* update_processed_vods, lines 120-140: the entry of a matched id.
SyncEntry(map, id) ==
    LET m == Match(map, id)
    IN IF id \in DOMAIN map
       THEN [k \in DOMAIN map[id] \cup {"youtube_id", "title", "uploaded_at"} |->
               CASE k = "youtube_id" -> m.youtube_id
                 [] k = "title" ->
                      IF Unset(map[id], "title") THEN m.title ELSE map[id].title
                 [] k = "uploaded_at" ->
                      IF Unset(map[id], "uploaded_at")
                      THEN m.published_at ELSE map[id].uploaded_at
                 [] OTHER -> map[id][k]]
       ELSE [twitch_id |-> id, youtube_id |-> m.youtube_id, title |-> m.title,
             uploaded_at |-> m.published_at, stream_date |-> JNull]

\* update_processed_vods, lines 111-116: what the script holds after its
\* json.load; a legacy list becomes a mapping.
SyncLoad(f) ==
    IF f.kind = "list"
    THEN FileDict([id \in Range(f.ids) |-> [twitch_id |-> id]])
    ELSE f

\* update_processed_vods, lines 118-143: the file it writes for the match
\* of one id.
update_processed_vods(loaded, id) ==
    FileDict([k \in DOMAIN loaded.map \cup {id} |->
                IF k = id THEN SyncEntry(loaded.map, id) ELSE loaded.map[k]])

\* update_processed_vods opens the checkpoint file and loads it.
SyncRead ==
    /\ pc \notin {"boot", "shutdown", "aborted", "exited"}
    /\ sync_vods = NoSync
    /\ file.kind \in {"dict", "list"}
    /\ sync_vods' = SyncLoad(file)
    /\ UNCHANGED <<pc, file, processed_vods, dir, youtube, config,
                   youtube_client, locals, cycle_end, twitch, listing, calls,
                   counters, process, other_file, probes, auth_failed, http,
                   playlist>>

\* update_processed_vods sets the destination id of a matched entry and
\* writes the file.
SyncWrite ==
    /\ sync_vods # NoSync
    /\ \E id \in DOMAIN sync_vods.map :
          file' = update_processed_vods(sync_vods, id)
    /\ sync_vods' = NoSync
    /\ UNCHANGED <<pc, processed_vods, dir, youtube, config,
                   youtube_client, locals, cycle_end, twitch, listing, calls,
                   counters, process, other_file, probes, auth_failed, http,
                   playlist>>

\* The controller with an entry for VOD 111 that has no destination id.
SyncInit ==
    /\ NoCollection
    /\ file \in {FileDict([id \in {"111"} |-> OldLegacy(id)]),
                 FileList(<<"111">>)}
    /\ delete_after_upload \in BOOLEAN
    /\ once = FALSE
    /\ start_cwd = ProjectRoot
    /\ InitCommon

\* The first MaxCycles cycles of one run_loop, and the playlist-sync
\* script run beside it.
SyncRun ==
    \/ Startup
    \/ CheckForNewVods /\ ListsOlder
    \/ Authenticate
    \/ Download
    \/ Upload
    \/ Delete
    \/ MarkProcessed
    \/ MarkRaises
    \/ Sleep
    \/ SyncRead
    \/ SyncWrite

SyncSpec == SyncInit /\ [][SyncRun]_vars

\* ----------------------------------------------------- the loop going on
\* The controller in loop mode with a store file of each usable shape and
\* one that holds a JSON number.
LiveInit ==
    /\ NoCollection
    /\ file \in {FileMissing, FileNumber,
                 FileDict([id \in {"111"} |-> OldFull(id)])}
    /\ delete_after_upload \in BOOLEAN
    /\ once = FALSE
    /\ start_cwd = ProjectRoot
    /\ InitCommon

\* run_loop for as long as nothing ends the process: "while True".
Loop ==
    \/ Startup
    \/ CheckForNewVods /\ ListsOlder
    \/ LaterCycle /\ ListsOlder
    \/ Authenticate
    \/ Download
    \/ Upload
    \/ Delete
    \/ MarkProcessed
    \/ MarkRaises
    \/ Sleep

\* The main thread takes its next step: every call returns or raises, and
\* time.sleep returns.
LiveSpec == LiveInit /\ [][Loop]_vars /\ WF_vars(Loop)

\* One run_loop process whose dashboard thread may fail, launched in the
\* project root or elsewhere.
DashInit ==
    /\ NoCollection
    /\ file \in {FileMissing, FileDict([id \in {"111"} |-> OldFull(id)])}
    /\ delete_after_upload \in BOOLEAN
    /\ once = FALSE
    /\ start_cwd \in {ProjectRoot, Elsewhere}
    /\ InitCommon

\* The dashboard thread: run_server binds and serves, or fails.
DashboardThread ==
    \/ DashboardRun
    \/ DashboardBindFails
    \/ DashboardServeFails

\* The main thread in run_loop, the dashboard thread, and the cancellation
\* of the loop.
DashRun ==
    \/ Loop
    \/ DashboardThread
    \/ Interrupt

DashSpec == DashInit /\ [][DashRun]_vars

\* ------------------------------------------------------------- claims
\* The store in memory and the store a fresh load of the file would give.
MemMap == IF processed_vods.kind = "dict" THEN processed_vods.map ELSE NoMap

DiskMap == IF file.kind = "dict" THEN file.map ELSE NoMap

\* Only _mark_processed writes the stream_date key: the entries of a
\* mapping that were written by the pipeline.
PipelineEntries(m) == {id \in DOMAIN m : "stream_date" \in DOMAIN m[id]}

\* A crash in a cycle: the process is back at its start, its memory gone.
CrashStep == pc # "boot" /\ pc' = "boot"

\* run_loop ends: by its shutdown path or by an exception leaving it.
InterruptStep == pc \notin {"shutdown", "aborted"} /\ pc' \in {"shutdown", "aborted"}

\* __init__ ran to its end.
StartupStep == pc = "boot" /\ pc' = "cycle"

\* C1: the store, in memory and on disk, holds a pipeline-written entry
\* for an id only with a destination id that the publish step returned for
\* that id, and _mark_processed (and the delete before it) is reached only
\* with a non-empty video id returned by upload in the same invocation.
C1_NoCheckpointWithoutPublish ==
    /\ pc \in {"delete", "mark"} => video_id \in youtube[cur]
    /\ \A id \in PipelineEntries(MemMap) : MemMap[id].youtube_id \in youtube[id]
    /\ \A id \in PipelineEntries(DiskMap) : DiskMap[id].youtube_id \in youtube[id]

\* C1 witness: a cycle archived one candidate and then met a failure.
C1_Witness ==
    /\ pc = "sleep" /\ cycle_end = "stopped" /\ success_count = 1
    /\ new_vods[1] \in PipelineEntries(MemMap)
    /\ new_vods[1] \in PipelineEntries(DiskMap)

\* C2: whenever process_vod has deleted the local artifact of an id, the
\* checkpoint entry of that id is already recorded and persisted.
C2_CheckpointBeforeDelete ==
    (pc = "mark" /\ delete_after_upload /\ file_path \notin dir[cur])
        => (cur \in DOMAIN MemMap /\ cur \in DOMAIN DiskMap)

\* C3: a crash at any point of a cycle, also inside _save_processed, loses
\* at most the in-flight item: every entry a load of the file gave before
\* the crash step is given unchanged by a load after it.
C3_CrashLosesAtMostInFlight ==
    [][CrashStep =>
         \A id \in DOMAIN _load_processed(file).map :
            /\ id \in DOMAIN _load_processed(file').map
            /\ _load_processed(file').map[id] = _load_processed(file).map[id]]_vars

\* C4: the candidates are the listing's unprocessed ids in the listing's
\* order, the collaborators are invoked in that order, a failure ends the
\* cycle at once, and run_once then returns the number of candidates that
\* succeeded before the failing one.
C4_StopOnFirstFailure ==
    /\ (pc = "auth" \/ cycle_end = "no_new") => new_vods \in SubSeqs(vods)
    /\ \A k \in 1..Len(calls) :
          /\ calls[k].idx <= idx
          /\ calls[k].id = new_vods[calls[k].idx]
          /\ k > 1 => calls[k-1].idx <= calls[k].idx
    /\ cycle_end = "stopped" =>
          /\ pc = "sleep"
          /\ success_count = idx - 1
          /\ \A j \in 1..(idx - 1) : new_vods[j] \in PipelineEntries(MemMap)

\* C4 witness: three candidates, the first archived, the publish of the
\* second failed, nothing invoked for the third.
C4_Witness ==
    /\ pc = "sleep" /\ cycle_end = "stopped"
    /\ Len(new_vods) = 3 /\ idx = 2 /\ success_count = 1
    /\ calls[Len(calls)] = Call("publish", 2, new_vods[2])

\* C5: a listed id that is in the store when the listing is filtered
\* (the store is as filtered until the cycle authenticates or ends with no
\* candidate), with a full or a legacy entry, is no candidate, and fetch
\* and publish are invoked for candidates only.
C5_SkipFiltering ==
    /\ (pc = "auth" \/ cycle_end = "no_new") =>
          \A id \in Range(vods) : id \in DOMAIN MemMap => id \notin Range(new_vods)
    /\ \A k \in 1..Len(calls) : calls[k].id \in Range(new_vods)

\* C5 witness: a listing with a fully archived id, a legacy id and a new
\* id was filtered; the new one is the only candidate.
C5_Witness ==
    /\ pc = "auth" /\ vods = Channel /\ new_vods = <<"333">>
    /\ MemMap["111"].youtube_id # None
    /\ MemMap["222"].youtube_id = None

\* C6: once a pipeline run for an id has produced a local artifact and no
\* checkpoint of the id has been written since, no pipeline run for that id
\* invokes the media-fetch tool: download returns the artifact and publish
\* is next.
C6_ResumeNoRefetch ==
    [][(pc = "process" /\ cur \in unfinished /\ ~CrashStep /\ ~InterruptStep)
          => (calls' = calls /\ file_path' = MediaFile /\ pc' = "upload")]_vars

\* C7: a startup on a legacy list leaves a keyed file whose keys are the
\* legacy ids, each with destination id null and title null, and no
\* listing makes check_for_new_vods return a legacy id.
C7_MigrationCorrect ==
    [][(StartupStep /\ file.kind = "list") =>
         /\ file'.kind = "dict"
         /\ DOMAIN file'.map = Range(file.ids)
         /\ \A id \in DOMAIN file'.map :
               /\ {"youtube_id", "title"} \subseteq DOMAIN file'.map[id]
               /\ file'.map[id].youtube_id = JNull
               /\ file'.map[id].title = JNull
         /\ \A l \in Listings :
               Range(FilterNew(l, processed_vods')) \cap Range(file.ids) = {}]_vars

\* C7 witness: the controller started on the legacy list of two ids.
C7_Witness ==
    /\ migrations = 1 /\ pc = "cycle" /\ cycles = 0
    /\ DOMAIN DiskMap = {"111", "222"}
    /\ DOMAIN MemMap = {"111", "222"}

\* C8: the migration writes at most once over all startups, only inside
\* __init__ and with no pipeline entry in the file; a startup on a keyed,
\* missing or unparsable file writes nothing and keeps the store as loaded.
C8_MigrationOnce ==
    /\ [](migrations <= 1)
    /\ [][/\ (migrations' # migrations) => StartupStep
          /\ StartupStep =>
               (IF file.kind = "list"
                THEN /\ migrations' = migrations + 1
                     /\ file'.kind = "dict"
                     /\ PipelineEntries(file'.map) = {}
                ELSE /\ migrations' = migrations
                     /\ file' = file
                     /\ processed_vods' = _load_processed(file))]_vars

\* C8 witness: after the migration an item was archived and the process
\* was started again on the keyed file.
C8_Witness ==
    /\ migrations = 1 /\ pc = "cycle" /\ ~youtube_client
    /\ PipelineEntries(DiskMap) # {}
    /\ PipelineEntries(MemMap) # {}

\* C9: when _mark_processed has completed, a fresh load of the file gives
\* the in-memory store: the new entry equal in every field and every
\* other entry unchanged.
C9_RoundTrip ==
    (success_count > 0 /\ (pc = "process" \/ cycle_end = "completed"))
        => /\ _load_processed(file) = processed_vods
           /\ new_vods[success_count] \in PipelineEntries(MemMap)

\* C9 witness: an item was archived into a store that holds a legacy
\* entry with unset fields.
C9_Witness ==
    /\ success_count > 0 /\ cycle_end = "completed"
    /\ \E id \in DOMAIN MemMap : MemMap[id].youtube_id = None

\* C10: for every file content the store after startup is a mapping on
\* which the filter of check_for_new_vods can be evaluated.
C10_LoadNeverFatal ==
    pc # "boot" => processed_vods.kind = "dict"

\* C11: wherever the controller starts the pipeline for a candidate or
\* starts a new cycle, the persisted snapshot, as a load gives it, equals
\* the in-memory store, also after a record whose snapshot write failed.
C11_StoreReconciled ==
    pc \in {"cycle", "process"} => _load_processed(file) = processed_vods

\* A listing call: check_for_new_vods asked the Source Lister.
ListingStep == pc = "cycle" /\ lister' # "none"

\* C12: whatever error the Source Lister meets in the token request, the
\* user lookup or the video listing (a failed request, a rejected token, a
\* response without the expected fields), get_channel_vods returns the
\* empty list and raises nothing: the cycle ends with no candidate.
C12_ListerFailsClosed ==
    lister \in {"request_error", "rejected", "bad_response"}
        => /\ vods = <<>> /\ new_vods = <<>>
           /\ pc = "sleep" /\ cycle_end = "no_new"

\* C13: no token is held before the first listing call, a listing call
\* with a held token that the API has not rejected requests no token, and
\* a listing call with a held token that the API has rejected requests a
\* new one.
C13_LazyTokenReuse ==
    /\ [](cycles = 0 => access_token = None)
    /\ [][ListingStep =>
            /\ (access_token # None /\ ~token_rejected) => ~token_fetched'
            /\ (access_token # None /\ token_rejected) => token_fetched']_vars

\* C14: an exception raised in a cycle leaves run_loop running: the loop
\* is at its sleep, nothing of the cycle is reported as processed, and the
\* next step of the loop starts another cycle.
C14_ExceptionCaught ==
    /\ [](cycle_end = "exception" => pc = "sleep")
    /\ [][(pc = "sleep" /\ cycle_end = "exception" /\ ~CrashStep /\ ~InterruptStep)
            => (pc' = "cycle" /\ processed_vods' = processed_vods)]_vars

\* C14 witness: the first candidate was archived, _mark_processed raised
\* for the second, and the loop sleeps with cycles left to run.
C14_Witness ==
    /\ pc = "sleep" /\ cycle_end = "exception" /\ cycles < MaxCycles
    /\ idx = 2 /\ success_count = 1

\* C15: an interrupt at any point of run_loop breaks the loop by its
\* shutdown path, and no cycle is started afterwards.
C15_InterruptBreaksCleanly ==
    [][/\ InterruptStep => pc' = "shutdown"
       /\ pc \in {"shutdown", "aborted"} => cycles' = cycles]_vars

\* process_vod got no video id from uploader.upload.
PublishFailedStep ==
    /\ pc = "upload"
    /\ pc' \notin {"boot", "shutdown", "aborted"}
    /\ UploadFailed(video_id')

\* C16: when the publish step fails, process_vod returns failure, the
\* store in memory and on disk is unchanged, the file download returned is
\* on disk as it was, and the resume check of a later run returns it.
C16_PublishFailureKeepsArtifact ==
    [][PublishFailedStep =>
         /\ pc' = "sleep" /\ cycle_end' = "stopped"
         /\ processed_vods' = processed_vods /\ file' = file
         /\ dir' = dir /\ file_path \in dir'[cur]
         /\ _find_existing_file(dir', cur) = file_path]_vars

\* process_vod got no file from downloader.download.
FetchFailedStep ==
    /\ pc = "process"
    /\ pc' \notin {"boot", "shutdown", "aborted"}
    /\ file_path' = None

\* C17: when the fetch step fails, only partial files of that id are
\* removed (the files of other ids and a completed media file stay), a
\* cleanup that cannot unlink is tolerated, the store is unchanged, publish
\* is not invoked, the cycle stops, and the id is a candidate again.
C17_FetchFailureCleanup ==
    [][FetchFailedStep =>
         /\ \A id \in Ids \ {cur} : dir'[id] = dir[id]
         /\ dir[cur] \ dir'[cur] \subseteq {PartFile}
         /\ dir'[cur] \subseteq dir[cur] \cup {PartFile}
         /\ processed_vods' = processed_vods /\ file' = file
         /\ calls' \in {calls, Append(calls, Call("fetch", idx, cur))}
         /\ youtube' = youtube
         /\ pc' = "sleep" /\ cycle_end' = "stopped"
         /\ NotProcessed(processed_vods', cur)
         /\ <<cur>> = FilterNew(<<cur>>, processed_vods')]_vars

\* C17 witness: the fetch of the second candidate failed and the cleanup
\* could not unlink the partial file it left.
C17_Witness ==
    /\ pc = "sleep" /\ cycle_end = "stopped" /\ file_path = None
    /\ idx = 2 /\ success_count = 1
    /\ calls[Len(calls)] = Call("fetch", 2, cur)
    /\ PartFile \in dir[cur]

\* process_vod called downloader.delete.
DeleteStep == pc = "delete" /\ pc' \notin {"boot", "shutdown", "aborted"}

\* _mark_processed ran to its end for an item whose artifact the delete
\* left on disk.
MarkAfterFailedDelete ==
    /\ pc = "mark" /\ delete_after_upload /\ file_path \in dir[cur]
    /\ pc' \in {"process", "sleep"} /\ cycle_end' # "exception"

\* C18: a delete that fails leaves the pipeline where a successful delete
\* leaves it, and the checkpoint that follows records the id with the
\* destination id publish returned and counts the item as completed.
C18_DeleteFailureKeepsCheckpoint ==
    /\ [][DeleteStep =>
            /\ pc' = "mark" /\ video_id' = video_id
            /\ processed_vods' = processed_vods /\ file' = file]_vars
    /\ [][MarkAfterFailedDelete =>
            /\ cur \in DOMAIN MemMap' /\ MemMap'[cur].youtube_id = video_id
            /\ cur \in DOMAIN DiskMap' /\ DiskMap'[cur].youtube_id = video_id
            /\ video_id \in youtube[cur]
            /\ success_count' = success_count + 1]_vars

\* C18 witness: with delete_after_upload set the cycle completed, the
\* artifact of its last item is still on disk and the item is checkpointed.
C18_Witness ==
    /\ pc = "sleep" /\ cycle_end = "completed" /\ delete_after_upload
    /\ file_path \in dir[cur]
    /\ cur \in PipelineEntries(MemMap) /\ MemMap[cur].youtube_id = video_id
    /\ cur \in PipelineEntries(DiskMap)

\* An invocation of process_vod ends: run_once goes on to the next
\* candidate or leaves its loop.
ProcessVodEnds ==
    /\ pc \in {"process", "upload", "delete", "mark"}
    /\ \/ pc' = "sleep"
       \/ pc = "mark" /\ pc' = "process"

\* C19: an invocation of process_vod ends either as a success, with the
\* entry of the id carrying this invocation's destination id in memory and
\* on disk, or as a failure, with the store unchanged in memory and on
\* disk and no entry written for the id.
C19_ExactlyOneOutcome ==
    [][ProcessVodEnds =>
         \/ /\ success_count' = success_count + 1
            /\ cycle_end' \in {"none", "completed"}
            /\ video_id \in youtube[cur]
            /\ cur \in DOMAIN MemMap' /\ MemMap'[cur].youtube_id = video_id
            /\ cur \in DOMAIN DiskMap' /\ DiskMap'[cur].youtube_id = video_id
         \/ /\ success_count' = success_count
            /\ cycle_end' = "stopped"
            /\ processed_vods' = processed_vods /\ file' = file
            /\ cur \notin DOMAIN MemMap' /\ cur \notin DOMAIN DiskMap']_vars

\* run_once has returned (lines 265, 270, 289) and run_loop is at its sleep.
RunOnceReturned ==
    pc = "sleep" /\ cycle_end \in {"no_new", "auth_failed", "stopped", "completed"}

\* The ids of this cycle's candidates that a mapping holds: no candidate
\* was in the store when the cycle began, so these are the ids added to it
\* during the cycle.
AddedIn(m) == {id \in Range(new_vods) : id \in DOMAIN m}

ProcessEnds == CrashStep \/ InterruptStep \/ (pc = "boot" /\ pc' = "boot")

\* The ids a load of a checkpoint file gives.
SnapshotIds(f) ==
    IF _load_processed(f).kind = "dict" THEN DOMAIN _load_processed(f).map ELSE {}

\* C21: within one controller process no step removes an id from the
\* in-memory store or from the persisted snapshot, and an id the filter of
\* check_for_new_vods rejects is rejected after every later step.
C21_AppendOnly ==
    [][~ProcessEnds =>
         /\ DOMAIN MemMap \subseteq DOMAIN MemMap'
         /\ SnapshotIds(file) \subseteq SnapshotIds(file')
         /\ \A id \in Ids : ~NotProcessed(processed_vods, id)
                                => ~NotProcessed(processed_vods', id)]_vars

\* The dashboard thread runs: DashboardServer.start's run_server.
DashboardStep == dashboard = "started" /\ dashboard' = "serving"

\* C22: under every interleaving the start of the dashboard thread leaves
\* the working directory and the file that "processed_vods.json" names as
\* they are, and no step writes a processed_vods.json other than the one
\* loaded at startup.
C22_DashboardReadOnly ==
    [][/\ DashboardStep => (cwd' = cwd /\ Checkpoint' = Checkpoint)
       /\ other_file' = other_file]_vars

\* The exit status of the process: 0 when main() returned, 1 when an
\* exception left it, -1 while it runs.
ExitStatus ==
    CASE pc \in {"exited", "shutdown"} -> 0
      [] pc = "aborted"               -> 1
      [] OTHER                        -> -1

\* C23: with --once a run whose authenticate() found no client secrets
\* does not end with exit status 0, and in loop mode run_once does not call
\* authenticate() again once a call of this process has returned False.
C23_FatalAuthNoRetry ==
    /\ (once /\ auth = "no_secrets") => ExitStatus # 0
    /\ (~once /\ auth_failed) => pc # "auth"

\* run_once called uploader.authenticate() and got False.
AuthFailedStep == pc = "auth" /\ auth' \in {"false", "no_secrets"}

InCycle == {"cycle", "auth", "process", "upload", "delete", "mark"}

\* C25: in loop mode a cycle that has ended, with items completed, with
\* none or by a caught exception, is at the sleep of run_loop; a cycle
\* starts only at the top of the loop, which is reached only from the
\* startup or from a sleep, so no two cycles run back to back; and unless
\* the process is interrupted or killed the sleep is followed by the top
\* of the loop.
C25_SleepBetweenCycles ==
    /\ [](cycle_end # "none" => pc = "sleep")
    /\ [][/\ (pc \in InCycle /\ pc' \notin InCycle /\ ~ProcessEnds) => pc' = "sleep"
          /\ (cycles' # cycles) => (pc = "cycle" /\ pc' # "cycle")
          /\ (pc' = "cycle" /\ pc # "cycle") => pc \in {"boot", "sleep"}
          /\ (pc = "sleep" /\ ~ProcessEnds) => pc' = "cycle"]_vars

\* C25 witness: the first cycle of a process ended with a failed
\* authentication, the loop slept, and its second cycle ended by an
\* exception; the loop is at its sleep again.
C25_Witness ==
    /\ pc = "sleep" /\ cycles = 2 /\ cycle_end = "exception"
    /\ auth_failed

\* C26: with --once the process starts no dashboard thread, never sleeps,
\* runs one cycle and is over when that cycle has ended, with nothing
\* running on; without --once the dashboard thread is started before the
\* first cycle and each sleep is followed by another cycle.
C26_OnceRunsOneCycle ==
    /\ [](once => (dashboard = "none" /\ pc # "sleep" /\ cycles <= 1))
    /\ []((once /\ cycle_end # "none") => pc \in {"exited", "aborted"})
    /\ []((once /\ pc = "exited") => cycles = 1)
    /\ []((~once /\ pc \in InCycle \cup {"sleep"}) => dashboard # "none")
    /\ []((~once) => pc # "exited")
    /\ [][/\ pc # "exited"
          /\ (~once /\ pc = "sleep" /\ pc' # "sleep" /\ ~ProcessEnds)
                => pc' = "cycle"]_vars

\* C26 witness: a --once process archived two items in its one cycle and
\* main() returned.
C26_Witness ==
    /\ once /\ pc = "exited" /\ cycles = 1
    /\ cycle_end = "completed" /\ success_count = 2

DownloadStep == pc = "process" /\ pc' \in {"upload", "sleep", "exited"}

\* C28: when no artifact of the item exists and the free space is below
\* the 10 GiB estimate plus the 5 GiB reserve, or cannot be determined,
\* download returns the failure value without invoking the media-fetch
\* tool, creates no file, and leaves the store and its file unchanged.
C28_DiskGuardRefuses ==
    [][(/\ DownloadStep
        /\ _find_existing_file(dir, cur) = None
        /\ \/ disk_usage'.raised
           \/ disk_usage'.free < EstimatedMaxSize + MinFreeGb * GiB)
       => /\ file_path' = None
          /\ calls' = calls
          /\ \A id \in Ids : dir'[id] \subseteq dir[id]
          /\ processed_vods' = processed_vods
          /\ file' = file]_vars

\* C28 witness: a download was refused with one MiB less than 15 GiB free,
\* before any fetch of the cycle.
C28_Witness ==
    /\ pc = "sleep" /\ cycle_end = "stopped"
    /\ ~disk_usage.raised
    /\ disk_usage.free = EstimatedMaxSize + MinFreeGb * GiB - 1
    /\ file_path = None
    /\ calls = <<>>

\* YouTubeUploader.upload is called by process_vod.
PublishStep == pc = "upload" /\ calls' # calls

\* C29: a path returned by download names a complete media artifact of the
\* item (non-empty, of a recognised media type) that is on disk, never a
\* partial file, and the file handed to the publish step is never partial.
C29_DownloadReturnsArtifact ==
    [][/\ (DownloadStep /\ file_path' # None) =>
             (file_path' = MediaFile /\ MediaFile \in dir'[cur])
       /\ PublishStep => file_path # PartFile]_vars

\* C30: within one controller process no source id is successfully
\* published more than once, over any sequence of cycles and listings (no
\* id has more than one video made by the process, an id with a video of
\* an earlier process being in the store and skipped), and a listing that
\* holds an id twice gives the pipeline that id at most once.
C30_AtMostOncePerProcess ==
    /\ \A id \in Ids : Cardinality(youtube[id]) <= 1
    /\ pc = "cycle" =>
          \A id \in Ids : Len(FilterNew(<<id, id>>, processed_vods)) <= 1

\* In this step authentication, fetch, publish and the checkpoint write
\* succeed where they are made.
SucceedStep ==
    /\ pc = "auth" => auth' = "ok"
    /\ pc = "process" => ~FetchFailed(file_path')
    /\ pc = "upload" => ~UploadFailed(video_id')
    /\ pc = "mark" => (cycle_end' # "exception" /\ file' = _save_processed(processed_vods'))

\* The id is checkpointed, in memory and in the file.
Checkpointed(id) ==
    /\ processed_vods.kind = "dict" /\ id \in DOMAIN processed_vods.map
    /\ file.kind = "dict" /\ id \in DOMAIN file.map

\* C31: while the loop runs, a candidate that every poll lists from some
\* point on is eventually checkpointed, if from some point on
\* authentication, fetch, publish and checkpoint writes succeed.
C31_EventualArchiving ==
    \A id \in Ids :
        (/\ <>[][ListingStep => (lister' = "ok" /\ id \in Range(vods'))]_vars
         /\ <>[][SucceedStep]_vars)
        => <>Checkpointed(id)

\* get_channel_vods returned a listing of which every id is in the store.
NoCandidateStep ==
    /\ ListingStep
    /\ lister' # "bad_response"
    /\ processed_vods.kind = "dict"
    /\ Range(vods') \subseteq DOMAIN processed_vods.map

\* C32: a cycle whose listing is empty or holds checkpointed ids only ends
\* at once: run_once returns to the sleep of the loop with no publish
\* authentication, no playlist lookup or creation, no fetch, no publish, no
\* file deleted and no write of the checkpoint file; and no call of
\* check_for_new_vods changes the store.
C32_IdleCycleNoEffects ==
    [][/\ NoCandidateStep =>
            /\ pc' = "sleep" /\ cycle_end' = "no_new"
            /\ auth' = NoAuth /\ youtube_client' = youtube_client
            /\ UNCHANGED <<playlist_id, playlist_id_file, playlists>>
            /\ calls' = <<>>
            /\ UNCHANGED <<dir, youtube, file, other_file>>
       /\ ListingStep => processed_vods' = processed_vods]_vars

\* C32 witness: in its second cycle, with a client and a playlist id from
\* the first, the loop was given a listing of one checkpointed id.
C32_Witness ==
    /\ pc = "sleep" /\ cycle_end = "no_new" /\ cycles = 2
    /\ vods = <<"111">> /\ "111" \in DOMAIN processed_vods.map
    /\ youtube_client /\ playlist_id = "PL1"

\* _mark_processed wrote the snapshot.
MarkStep ==
    /\ pc = "mark" /\ cycle_end' # "exception"
    /\ file' = _save_processed(processed_vods')

\* update_processed_vods wrote the file.
SyncWriteStep == sync_vods # NoSync /\ sync_vods' = NoSync

\* Every destination id the file holds is in the file after the step.
KeepsLinks ==
    \A id \in DOMAIN file.map :
        ("youtube_id" \in DOMAIN file.map[id] /\ file.map[id].youtube_id # JNull)
        => /\ file'.kind = "dict" /\ id \in DOMAIN file'.map
           /\ "youtube_id" \in DOMAIN file'.map[id]
           /\ file'.map[id].youtube_id = file.map[id].youtube_id

\* C33: what the playlist-sync script wrote into the checkpoint file while
\* the archiver runs is in the file after the archiver's next
\* _mark_processed, and what the archiver wrote is in the file after the
\* script's write: neither write drops an entry or a destination id that
\* the file held.
C33_NoLostUpdate ==
    [][((MarkStep \/ SyncWriteStep) /\ file.kind = "dict") => KeepsLinks]_vars

\* run_once called get_or_create_playlist.
ResolveStep == pc = "auth" /\ auth' = "ok" /\ NeedsPlaylist(playlist_id)

\* C34: a playlist is created only when youtube_playlist_id.txt holds no id
\* or the playlist it names does not exist, so an error while verifying
\* the id of an existing playlist creates no second one; an id returned
\* after a creation is the id saved; and while the controller holds a
\* playlist id no lookup or creation is made.
C34_PlaylistCreatedOnce ==
    [][/\ playlists' # playlists =>
            /\ ResolveStep
            /\ ~HasSavedId(playlist_id_file) \/ playlist_id_file \notin playlists
            /\ playlist_id' # None => playlist_id_file' = playlist_id'
       /\ ~NeedsPlaylist(playlist_id) =>
            UNCHANGED <<playlist_id, playlist_id_file, playlists>>]_vars

\* C35: a failure of the collection never blocks archiving: whatever
\* get_or_create_playlist meets, run_once goes on to its candidates; an
\* upload that made a video returns its id, whatever add_to_playlist meets;
\* and no item is published a second time by the loop.
C35_CollectionNeverBlocks ==
    [][/\ ResolveStep => pc' = "process"
       /\ (PublishStep /\ youtube' # youtube) => video_id' \in youtube'[cur]
       /\ \A id \in Ids : youtube'[id] # youtube[id] => youtube[id] = {}]_vars

\* Positions of the main thread inside run_loop's while loop.
InLoop == {"cycle", "auth", "process", "upload", "delete", "mark", "sleep"}

\* What the main thread works on: its position, its locals and its store.
main_thread == <<pc, locals, cycles, cycle_end, processed_vods,
                 youtube_client, playlist_id>>

\* C36: a failure of the dashboard thread (the port cannot be bound, or the
\* server loop raises) never stops or blocks the poll loop: a step of the
\* dashboard thread leaves the main thread where it is, in every position
\* of the loop the main thread has a next step whatever became of the
\* dashboard thread, and a cancellation of the loop ends the process
\* whether the dashboard thread is alive or not.
C36_DashboardNeverBlocks ==
    /\ [][DashboardThread => UNCHANGED main_thread]_vars
    /\ [](pc \in InLoop => (ENABLED Loop /\ ENABLED Interrupt))

\* The dashboard thread could not bind its port, and the loop is in its
\* second cycle with a candidate at hand.
C36_Witness ==
    /\ dashboard = "bind_failed"
    /\ cycles = 2
    /\ pc = "process"

====
